---- MODULE Spec2Model ----
(***************************************************************************)
(* Model of the weather normalisation / aggregation pipeline of            *)
(* weather_demo_app (twc.py): month_bounds_local, clamp_to_month_local,    *)
(* daily_aggregates, ten_day_buckets and guess_sales_column.               *)
(*                                                                         *)
(* Representation                                                          *)
(*   - a Python str is the sequence of its Unicode code points;            *)
(*   - a tz-aware datetime is [wall |-> w, off |-> o]: the wall-clock      *)
(*     reading w in seconds since 1970-01-01T00:00:00 of its own zone and  *)
(*     the zone's UTC offset o in seconds; its instant is w - o;           *)
(*   - a datetime.date is [days |-> n], n days since 1970-01-01;           *)
(*   - NaT, NaN and None are records of their own;                         *)
(*   - a number is [v |-> n], n a fixed-point reading in tenths;           *)
(*   - a DataFrame is [columns |-> sequence of column names,               *)
(*     index |-> sequence of row labels, rows |-> sequence of rows], a row *)
(*     being a function from the column names to cell values.              *)
(***************************************************************************)
EXTENDS Integers, Sequences, FiniteSets, TLC

VARIABLES
    year,     \* the selected year
    month,    \* the selected month
    tz_str,   \* the selected time zone name
    df,       \* the caller's table: the argument handed to the function
    g,        \* ten_day_buckets' working copy of its argument
    ret,      \* the value returned by the last call
    prev,     \* the value returned by the call before it
    pc,       \* the call that has been made last
    resp,     \* the payload handed to TwcClient.to_dataframe
    jwt,      \* the client's _jwt
    jwt_time, \* the client's _jwt_time, in seconds
    clock,    \* time.time(), in seconds
    call      \* what the last ensure_jwt call was given and did

vars == <<year, month, tz_str, df, g, ret, prev, pc, resp, jwt, jwt_time, clock, call>>

\* ------------------------------------------------------------------ bounds

FirstYear == 2024
LastYear == 2025
MaxClampRows == 2
MaxAggRows == 2
MaxDailyRows == 3
MaxCols == 3
MaxInvRows == 2
MaxPayloadKeys == 2
MaxRenewals == 2

Years == FirstYear..LastYear
Months == 1..12

\* ------------------------------------------------------- calendar arithmetic

\* every cell value is a record, so that any two cells can be compared
NaT == [nat |-> TRUE]
NaN == [nan |-> TRUE]
None == [none |-> TRUE]
Num(n) == [v |-> n]
Date(n) == [days |-> n]

\* TwcClient.__init__: no token, _jwt_time 0.0; no call made yet
NewClient == jwt = None /\ jwt_time = 0 /\ clock = 0 /\ call = None

\* day of the 400-year era from the year of the era and the day of the
\* March-based year
DayOfEra(yoe, doy) == yoe * 365 + yoe \div 4 - yoe \div 100 + doy

DaysFromShifted(yy, mp, d) ==
    (yy \div 400) * 146097
        + DayOfEra(yy % 400, (153 * mp + 2) \div 5 + d - 1) - 719468

\* proleptic Gregorian day number of (y, m, d), days since 1970-01-01
DaysFromCivil(y, m, d) ==
    DaysFromShifted(IF m <= 2 THEN y - 1 ELSE y, (m + 9) % 12, d)

CivilRecord(y, m, d) ==
    [year |-> IF m <= 2 THEN y + 1 ELSE y, month |-> m, day |-> d]

CivilOfMonth(y, doy, mp) ==
    CivilRecord(y, IF mp < 10 THEN mp + 3 ELSE mp - 9,
                doy - (153 * mp + 2) \div 5 + 1)

CivilOfDay(y, doy) == CivilOfMonth(y, doy, (5 * doy + 2) \div 153)

CivilOfYear(era, doe, yoe) ==
    CivilOfDay(yoe + era * 400, doe - (365 * yoe + yoe \div 4 - yoe \div 100))

CivilOfEra(era, doe) ==
    CivilOfYear(era, doe,
        (doe - doe \div 1460 + doe \div 36524 - doe \div 146096) \div 365)

\* the (year, month, day) of a day number
CivilFromDays(z) ==
    CivilOfEra((z + 719468) \div 146097, (z + 719468) % 146097)

isleap(y) == y % 4 = 0 /\ (y % 100 # 0 \/ y % 400 = 0)

\* calendar.monthrange(year, month)[1]
monthrange(y, m) ==
    IF m = 2 THEN (IF isleap(y) THEN 29 ELSE 28)
    ELSE IF m \in {4, 6, 9, 11} THEN 30 ELSE 31

\* 0 = Sunday .. 6 = Saturday (1970-01-01 was a Thursday)
Weekday(z) == (z + 4) % 7

\* wall-clock seconds of a naive datetime(y, m, d, hh, mm, ss)
WallOf(y, m, d, hh, mm, ss) ==
    DaysFromCivil(y, m, d) * 86400 + hh * 3600 + mm * 60 + ss

\* --------------------------------------------------------------- time zones

Zones == {"UTC", "Asia/Tokyo", "America/New_York"}

NthSundayFrom(first, n) == first + ((7 - Weekday(first)) % 7) + 7 * (n - 1)

\* day number of the n-th Sunday of month m of year y
NthSunday(y, m, n) == NthSundayFrom(DaysFromCivil(y, m, 1), n)

\* US rule since 2007: daylight time from the second Sunday of March 02:00
\* standard time to the first Sunday of November 02:00 daylight time
NYDstStart(y) == NthSunday(y, 3, 2) * 86400 + 2 * 3600
NYDstEnd(y) == NthSunday(y, 11, 1) * 86400 + 2 * 3600

NYOffsetAtWall(w, y) ==
    IF w >= NYDstStart(y) + 3600 /\ w < NYDstEnd(y)
    THEN -4 * 3600 ELSE -5 * 3600

\* ZoneInfo(tz).utcoffset of a wall-clock reading (fold = 0): in the gap the
\* offset before the transition, in the overlap the first occurrence
OffsetAtWall(tz, w) ==
    IF tz = "Asia/Tokyo" THEN 9 * 3600
    ELSE IF tz = "America/New_York"
         THEN NYOffsetAtWall(w, CivilFromDays(w \div 86400).year)
    ELSE 0

NYOffsetAtUtc(u, y) ==
    IF u >= NYDstStart(y) + 5 * 3600 /\ u < NYDstEnd(y) + 4 * 3600
    THEN -4 * 3600 ELSE -5 * 3600

\* ZoneInfo(tz).utcoffset at a UTC instant u (seconds since the epoch)
OffsetAtUtc(tz, u) ==
    IF tz = "Asia/Tokyo" THEN 9 * 3600
    ELSE IF tz = "America/New_York"
         THEN NYOffsetAtUtc(u, CivilFromDays((u - 5 * 3600) \div 86400).year)
    ELSE 0

\* datetime(..., tzinfo=tz) / pd.Timestamp(..., tz=tz): a wall-clock reading
\* attached to a zone
Localize(w, tz) == [wall |-> w, off |-> OffsetAtWall(tz, w)]

Instant(t) == t.wall - t.off

AtOffset(u, o) == [wall |-> u + o, off |-> o]

\* .astimezone(tz) / .dt.tz_convert(tz): same instant, read in another zone
tz_convert(t, tz) ==
    IF t = NaT THEN NaT
    ELSE AtOffset(Instant(t), OffsetAtUtc(tz, Instant(t)))

\* .dt.date: the calendar date of the wall-clock reading
DateOf(t) == IF t = NaT THEN NaT ELSE Date(t.wall \div 86400)

IsoFields(c, s, off) ==
    [year |-> c.year, month |-> c.month, day |-> c.day,
     hour |-> s \div 3600, minute |-> (s % 3600) \div 60, second |-> s % 60,
     zone |-> IF off = 0 THEN "Z" ELSE "offset"]

\* datetime.isoformat().replace("+00:00", "Z") of a UTC datetime: the fields
\* the string spells out
isoformat(t) == IsoFields(CivilFromDays(t.wall \div 86400), t.wall % 86400, t.off)

\* ------------------------------------------------------- month_bounds_local

month_bounds_local_no_seconds(y, m, tz) ==
    LET first_local == Localize(WallOf(y, m, 1, 0, 0, 0), tz)
        last_local == Localize(WallOf(y, m, monthrange(y, m), 23, 59, 0), tz)
    IN  <<isoformat(tz_convert(first_local, "UTC")),
          isoformat(tz_convert(last_local, "UTC"))>>

month_bounds_local(y, m, tz) ==
    LET first_local == Localize(WallOf(y, m, 1, 0, 0, 0), tz)
        last_day == monthrange(y, m)
        last_local == Localize(WallOf(y, m, last_day, 23, 59, 59), tz)
        first_utc == tz_convert(first_local, "UTC")
        last_utc == tz_convert(last_local, "UTC")
    IN  <<isoformat(first_utc), isoformat(last_utc)>>

EmptyFrame == [columns |-> <<>>, index |-> <<>>, rows |-> <<>>]

InitBounds ==
    /\ year \in Years
    /\ month \in Months
    /\ tz_str \in Zones
    /\ df = EmptyFrame
    /\ g = None
    /\ ret = None
    /\ prev = None
    /\ resp = None
    /\ NewClient
    /\ pc = "start"

MonthBoundsLocal ==
    /\ pc = "start"
    /\ ret' = month_bounds_local(year, month, tz_str)
    /\ pc' = "month_bounds_local"
    /\ UNCHANGED <<year, month, tz_str, df, g, prev, resp, jwt, jwt_time, clock, call>>

NextBounds == MonthBoundsLocal

SpecBounds == InitBounds /\ [][NextBounds]_vars

\* the instant an ISO "Z" string denotes, in seconds since the epoch
IsoSeconds(s) ==
    WallOf(s.year, s.month, s.day, s.hour, s.minute, s.second)

\* the length of the calendar month in days, from the calendar alone
CalendarDays(y, m) ==
    IF m = 12 THEN DaysFromCivil(y + 1, 1, 1) - DaysFromCivil(y, 12, 1)
    ELSE DaysFromCivil(y, m + 1, 1) - DaysFromCivil(y, m, 1)

BoundsLength == IsoSeconds(ret[2]) - IsoSeconds(ret[1])

\* the change of the zone's UTC offset between the local start of the month
\* and the local end of its last day
OffsetChange(y, m, tz) ==
    OffsetAtWall(tz, WallOf(y, m, monthrange(y, m), 23, 59, 59))
        - OffsetAtWall(tz, WallOf(y, m, 1, 0, 0, 0))

\* C2 (as stated): the two instants month_bounds_local returns are
\* (days in the month) * 86400 - 1 seconds apart in every time zone.
C2_LengthIndependentOfZone ==
    pc = "month_bounds_local" =>
        BoundsLength = CalendarDays(year, month) * 86400 - 1

\* C2 (amended): the two instants are (days in the month) * 86400 - 1 seconds
\* apart less the change of the zone's UTC offset between the month's local
\* start and local end; both are "Z" strings; in a zone whose offset is the
\* same at both ends the length is exactly (days in the month) * 86400 - 1.
C2_LengthLessOffsetChange ==
    pc = "month_bounds_local" =>
        /\ ret[1].zone = "Z" /\ ret[2].zone = "Z"
        /\ CalendarDays(year, month) \in 28..31
        /\ BoundsLength = CalendarDays(year, month) * 86400 - 1
                            - OffsetChange(year, month, tz_str)
        /\ (OffsetChange(year, month, tz_str) = 0 =>
                BoundsLength = CalendarDays(year, month) * 86400 - 1)

\* a leap-year February in a zone east of Greenwich: 29 days less a second
C2_Witness ==
    /\ pc = "month_bounds_local"
    /\ year = 2024 /\ month = 2 /\ tz_str = "Asia/Tokyo"
    /\ BoundsLength = 29 * 86400 - 1
    /\ ret[1] = [year |-> 2024, month |-> 1, day |-> 31, hour |-> 15,
                 minute |-> 0, second |-> 0, zone |-> "Z"]

\* ---------------------------------------------------------------- DataFrame

Range(s) == {s[i] : i \in DOMAIN s}

\* the elements of a finite set of integers, ascending
Ascending(S) ==
    [j \in 1..Cardinality(S) |->
        CHOOSE x \in S : Cardinality({y \in S : y < x}) = j - 1]

\* the i-th elements of vals, for i in the ascending sequence keep
Take(vals, keep) == [j \in 1..Len(keep) |-> vals[keep[j]]]

\* pd.DataFrame(rows) with the default RangeIndex
Frame(cols, rows) ==
    [columns |-> cols, index |-> [i \in 1..Len(rows) |-> i - 1], rows |-> rows]

\* df.empty: no rows or no columns
empty(d) == Len(d.rows) = 0 \/ Len(d.columns) = 0

\* df[c]: the cells of column c, one per row
Column(d, c) == [i \in 1..Len(d.rows) |-> d.rows[i][c]]

\* df[c] = vals: overwrite column c, or append it as the last column
SetColumn(d, c, vals) ==
    [columns |-> IF c \in Range(d.columns) THEN d.columns ELSE Append(d.columns, c),
     index |-> d.index,
     rows |-> [i \in 1..Len(d.rows) |->
                 [k \in (DOMAIN d.rows[i]) \cup {c} |->
                     IF k = c THEN vals[i] ELSE d.rows[i][k]]]]

locKeep(d, keep) ==
    [columns |-> d.columns, index |-> Take(d.index, keep), rows |-> Take(d.rows, keep)]

\* df.loc[mask]: the rows whose mask is true, labels kept, order kept
loc(d, mask) == locKeep(d, Ascending({i \in 1..Len(d.rows) : mask[i]}))

\* series.loc[mask] of a column computed beside the frame
locSeries(vals, mask) == Take(vals, Ascending({i \in DOMAIN vals : mask[i]}))

\* ------------------------------------------------------------ pd.to_datetime

IsTimestamp(x) == "wall" \in DOMAIN x
IsIsoString(x) == "iso" \in DOMAIN x

\* pd.to_datetime(x, errors="coerce", utc=True) of one cell: an ISO string
\* with an offset is read as the instant it denotes, a tz-aware datetime is
\* converted, anything else (None, text that is no date) becomes NaT
to_datetime_utc(x) ==
    IF IsIsoString(x) THEN [wall |-> x.iso.wall - x.iso.off, off |-> 0]
    ELSE IF IsTimestamp(x) THEN tz_convert(x, "UTC")
    ELSE NaT

\* pd.to_datetime(x, errors="coerce") of one tz-aware cell: kept as it is
to_datetime(x) == IF IsTimestamp(x) THEN x ELSE NaT

TimestampCandidates ==
    <<"validTimeLocal", "validTimeUtc", "fcstValidLocal", "fcstValidUtc",
      "time", "validTime">>

FirstHit(hits) ==
    IF hits = {} THEN None
    ELSE [name |-> TimestampCandidates[CHOOSE i \in hits : \A j \in hits : i <= j]]

\* the first candidate column the frame has, or None
FirstCandidate(d) ==
    FirstHit({i \in DOMAIN TimestampCandidates :
                 TimestampCandidates[i] \in Range(d.columns)})

\* pd.to_datetime(df[c], errors="coerce", utc=True)
ColumnToDatetimeUtc(d, c) ==
    [i \in 1..Len(d.rows) |-> to_datetime_utc(d.rows[i][c])]

\* ----------------------------------------------------- clamp_to_month_local

\* line 196: datetime_jst read back as a UTC instant
FromDatetimeJstAsWallClock(x) ==
    IF IsTimestamp(x) THEN [wall |-> x.wall, off |-> 0] ELSE NaT

FromDatetimeJst(x) == tz_convert(tz_convert(to_datetime(x), "Asia/Tokyo"), "UTC")

CandidateInstants(d, cand) ==
    IF cand = None THEN None ELSE [ts |-> ColumnToDatetimeUtc(d, cand.name)]

\* the instant column clamp_to_month_local goes by, or None when the frame
\* has neither timestamp, datetime_jst nor a candidate column
ClampInstants(d) ==
    IF "timestamp" \in Range(d.columns)
    THEN [ts |-> ColumnToDatetimeUtc(d, "timestamp")]
    ELSE IF "datetime_jst" \in Range(d.columns)
    THEN [ts |-> [i \in 1..Len(d.rows) |-> FromDatetimeJst(d.rows[i]["datetime_jst"])]]
    ELSE CandidateInstants(d, FirstCandidate(d))

\* next_start: the first day of the following month, 00:00 local
NextStart(y, m, tz) ==
    IF m = 12 THEN Localize(WallOf(y + 1, 1, 1, 0, 0, 0), tz)
    ELSE Localize(WallOf(y, m + 1, 1, 0, 0, 0), tz)

\* (ts_local >= start) & (ts_local < next_start); a comparison with NaT is
\* false; tz-aware datetimes compare by instant
MonthMaskClosed(t, start, next_start) ==
    /\ t # NaT
    /\ Instant(t) >= Instant(start)
    /\ Instant(t) <= Instant(next_start)

MonthMask(t, start, next_start) ==
    /\ t # NaT
    /\ Instant(t) >= Instant(start)
    /\ Instant(t) < Instant(next_start)

\* out["datetime_local"] = ...; if tz_str == "Asia/Tokyo": out["datetime_jst"] = ...
ClampLocalColumns(out, tz) ==
    IF tz = "Asia/Tokyo"
    THEN SetColumn(out, "datetime_jst", Column(out, "datetime_local"))
    ELSE out

\* out["date"] = ts_local.loc[mask].dt.date; out["datetime_local"] = ts_local.loc[mask]
ClampOut(out, kept, tz) ==
    ClampLocalColumns(
        SetColumn(SetColumn(out, "date", [j \in 1..Len(kept) |-> DateOf(kept[j])]),
                  "datetime_local", kept),
        tz)

\* out = df.loc[mask].copy()
ClampMasked(d, ts_local, mask, tz) ==
    ClampOut(loc(d, mask), locSeries(ts_local, mask), tz)

\* mask = (ts_local >= start) & (ts_local < next_start)
ClampLocal(d, ts_local, start, next_start, tz) ==
    ClampMasked(d, ts_local,
        [i \in 1..Len(d.rows) |-> MonthMask(ts_local[i], start, next_start)], tz)

\* ts_local = ts.dt.tz_convert(tz); start, next_start
ClampByInstants(d, ts, y, m, tz) ==
    ClampLocal(d, [i \in 1..Len(d.rows) |-> tz_convert(ts[i], tz)],
               Localize(WallOf(y, m, 1, 0, 0, 0), tz), NextStart(y, m, tz), tz)

ClampResolved(d, src, y, m, tz) ==
    IF src = None THEN d ELSE ClampByInstants(d, src.ts, y, m, tz)

clamp_to_month_local(d, y, m, tz) ==
    IF empty(d) THEN d ELSE ClampResolved(d, ClampInstants(d), y, m, tz)

\* --------------------------------------------------- observation tables

ProbesAround(start, next) == {start - 1, start, next - 1, next}

\* the instants a reading may carry: the second before the local month
\* start, the start, the last second of the month, the next month's start
ProbeInstants(y, m, tz) ==
    ProbesAround(Instant(Localize(WallOf(y, m, 1, 0, 0, 0), tz)),
                 Instant(NextStart(y, m, tz)))

\* an ISO-8601 string with the +09:00 offset, as a validTimeLocal field of
\* a Japanese feed spells the instant u
IsoLocalString(u) == [iso |-> [wall |-> u + 9 * 3600, off |-> 9 * 3600]]

RawCells(y, m, tz) ==
    {IsoLocalString(u) : u \in ProbeInstants(y, m, tz)}
        \cup {None, [text |-> "n/a"]}

AttachTimestamp(d, ts) ==
    SetColumn(
        SetColumn(
            SetColumn(d, "timestamp", ts),
            "date", [i \in 1..Len(d.rows) |-> DateOf(tz_convert(ts[i], "Asia/Tokyo"))]),
        "datetime_jst", [i \in 1..Len(d.rows) |-> tz_convert(ts[i], "Asia/Tokyo")])

\* TwcClient.to_dataframe's timestamp resolution on a frame that has the
\* candidate column c: timestamp, date and datetime_jst are attached
ResolveTimestamp(d, c) == AttachTimestamp(d, ColumnToDatetimeUtc(d, c))

\* a frame of raw readings with only the candidate column
RawFrame(cells) ==
    Frame(<<"validTimeLocal">>,
          [i \in 1..Len(cells) |-> [k \in {"validTimeLocal"} |-> cells[i]]])

\* a frame that kept only the derived local datetime
JstFrame(cells) ==
    Frame(<<"datetime_jst">>,
          [i \in 1..Len(cells) |->
              [k \in {"datetime_jst"} |->
                  tz_convert(to_datetime_utc(cells[i]), "Asia/Tokyo")]])

\* the three tables a sequence of raw cells gives: the raw candidate column
\* alone, the derived local datetime alone, to_dataframe's resolved table
ClampInputs(cells) ==
    {RawFrame(cells), JstFrame(cells),
     ResolveTimestamp(RawFrame(cells), "validTimeLocal")}

InitClamp ==
    /\ year \in Years
    /\ month \in Months
    /\ tz_str \in Zones
    /\ \E k \in 0..MaxClampRows :
          \E cells \in [1..k -> RawCells(year, month, tz_str)] :
              df \in ClampInputs(cells)
    /\ g = None
    /\ ret = None
    /\ prev = None
    /\ resp = None
    /\ NewClient
    /\ pc = "start"

\* raw_df = clamp_to_month_local(raw_df, year, month, tz)
Clamp ==
    /\ pc = "start"
    /\ ret' = clamp_to_month_local(df, year, month, tz_str)
    /\ prev' = ret
    /\ pc' = "clamp"
    /\ UNCHANGED <<year, month, tz_str, df, g, resp, jwt, jwt_time, clock, call>>

\* the returned table clamped once more, to the same month and zone
ClampAgain ==
    /\ pc = "clamp"
    /\ ret' = clamp_to_month_local(ret, year, month, tz_str)
    /\ prev' = ret
    /\ pc' = "clamp2"
    /\ UNCHANGED <<year, month, tz_str, df, g, resp, jwt, jwt_time, clock, call>>

NextClamp == Clamp \/ ClampAgain

SpecClamp == InitClamp /\ [][NextClamp]_vars

\* the instant the authoritative column of row i denotes (seconds since the
\* epoch), or NaT
RowInstant(d, i) ==
    LET c == IF "timestamp" \in Range(d.columns) THEN "timestamp"
             ELSE IF "datetime_jst" \in Range(d.columns) THEN "datetime_jst"
             ELSE "validTimeLocal"
        x == d.rows[i][c]
    IN  IF IsIsoString(x) THEN [u |-> x.iso.wall - x.iso.off]
        ELSE IF IsTimestamp(x) THEN [u |-> x.wall - x.off]
        ELSE NaT

\* the wall-clock reading of instant u in zone tz
LocalWall(u, tz) == u + OffsetAtUtc(tz, u)

\* the instant read in tz falls in the calendar month (y, m)
InLocalMonth(u, y, m, tz) ==
    LET c == CivilFromDays(LocalWall(u, tz) \div 86400)
    IN  c.year = y /\ c.month = m

\* the local wall-clock interval [first day 00:00, next month's first day 00:00)
InLocalInterval(u, y, m, tz) ==
    /\ LocalWall(u, tz) >= WallOf(y, m, 1, 0, 0, 0)
    /\ LocalWall(u, tz) <
         (IF m = 12 THEN WallOf(y + 1, 1, 1, 0, 0, 0) ELSE WallOf(y, m + 1, 1, 0, 0, 0))

\* C1: on a non-empty table with a resolvable instant column the clamp keeps
\* exactly the rows whose instant, read in tz, lies in [first day of (year,
\* month) 00:00 local, first day of the next month 00:00 local), in their
\* order and with their cells; a row at exactly the next month's local start
\* and every row with a null or unparseable instant is dropped.
C1_ClampKeepsExactlyLocalMonth ==
    (pc = "clamp" /\ ~empty(df)) =>
        LET inside == {i \in 1..Len(df.rows) :
                          /\ RowInstant(df, i) # NaT
                          /\ InLocalInterval(RowInstant(df, i).u, year, month, tz_str)}
            keep == Ascending(inside)
        IN  /\ ret.index = [j \in 1..Len(keep) |-> df.index[keep[j]]]
            /\ Len(ret.rows) = Len(keep)
            /\ \A j \in 1..Len(keep) : \A c \in Range(df.columns) \ {"date", "datetime_jst"} :
                   ret.rows[j][c] = df.rows[keep[j]][c]
            /\ \A i \in inside : InLocalMonth(RowInstant(df, i).u, year, month, tz_str)
            /\ \A i \in 1..Len(df.rows) :
                   (RowInstant(df, i) # NaT /\ i \notin inside) =>
                       ~InLocalMonth(RowInstant(df, i).u, year, month, tz_str)
            /\ \A i \in 1..Len(df.rows) :
                   (RowInstant(df, i) # NaT
                    /\ RowInstant(df, i).u = Instant(NextStart(year, month, tz_str)))
                       => df.index[i] \notin Range(ret.index)

\* December in New York: the reading at the local start of January is
\* dropped, the one a second earlier is kept
C1_Witness ==
    /\ pc = "clamp"
    /\ month = 12 /\ tz_str = "America/New_York"
    /\ Len(df.rows) = 2
    /\ RowInstant(df, 1) # NaT
    /\ RowInstant(df, 1).u = Instant(NextStart(year, month, tz_str))
    /\ RowInstant(df, 2) # NaT
    /\ RowInstant(df, 2).u = Instant(NextStart(year, month, tz_str)) - 1
    /\ ret.index = <<1>>
    /\ CivilFromDays(ret.rows[1]["date"].days) = [year |-> year, month |-> 12, day |-> 31]

\* C3: clamping a clamped table again to the same (year, month, zone) returns
\* the same table: the same rows with the same instants and the same dates,
\* whichever instant column the first call went by.
C3_ClampIdempotent ==
    pc = "clamp2" => ret = prev

\* the first call went by the raw candidate column and attached datetime_jst,
\* the second went by datetime_jst; a row was dropped, a row was kept
C3_Witness ==
    /\ pc = "clamp2"
    /\ df.columns = <<"validTimeLocal">>
    /\ tz_str = "Asia/Tokyo"
    /\ "datetime_jst" \in Range(prev.columns)
    /\ Len(df.rows) > Len(ret.rows)
    /\ Len(ret.rows) > 0
    /\ \A j \in 1..Len(ret.rows) :
          /\ ret.rows[j]["date"] = prev.rows[j]["date"]
          /\ CivilFromDays(ret.rows[j]["date"].days).month = month

\* --------------------------------------------------------- daily_aggregates

Raise(exc) == [raise |-> exc]
Raised(x) == "raise" \in DOMAIN x
IsFrame(x) == "rows" \in DOMAIN x

IsNum(x) == "v" \in DOMAIN x
IsDate(x) == "days" \in DOMAIN x

RECURSIVE SumOver(_, _)
\* the sum of vals[i].v over the positions i in S
SumOver(vals, S) ==
    IF S = {} THEN 0
    ELSE vals[CHOOSE i \in S : TRUE].v + SumOver(vals, S \ {CHOOSE i \in S : TRUE})

\* a to the nearest multiple of b, as a multiple: ties go to the even one
RoundHalfEven(a, b) ==
    IF 2 * (a % b) < b THEN a \div b
    ELSE IF 2 * (a % b) > b THEN a \div b + 1
    ELSE IF (a \div b) % 2 = 0 THEN a \div b ELSE a \div b + 1

\* "mean" over the non-null cells: the exact quotient, NaN when there is none
MeanOf(vals, nn) ==
    IF nn = {} THEN NaN ELSE [num |-> SumOver(vals, nn), den |-> Cardinality(nn)]

\* "max" over the non-null cells, NaN when there is none
MaxOf(vals, nn) ==
    IF nn = {} THEN NaN
    ELSE Num(CHOOSE x \in {vals[i].v : i \in nn} : \A i \in nn : vals[i].v <= x)

\* "sum" over the non-null cells, 0 when there is none
SumOf(vals, nn) == Num(SumOver(vals, nn))

\* one aggregation of a group: the positions S of column vals
Aggregate(op, vals, S) ==
    IF op = "mean" THEN MeanOf(vals, {i \in S : IsNum(vals[i])})
    ELSE IF op = "max" THEN MaxOf(vals, {i \in S : IsNum(vals[i])})
    ELSE SumOf(vals, {i \in S : IsNum(vals[i])})

\* Series.round(1) of one cell
round1(x) ==
    IF "num" \in DOMAIN x THEN Num(RoundHalfEven(x.num, x.den)) ELSE x

\* one output row of groupby(key).agg(**mapping): the key and one cell per
\* mapping entry
GroupRow(d, key, k, mapping) ==
    [c \in {key} \cup {mapping[j].name : j \in DOMAIN mapping} |->
        IF c = key THEN k
        ELSE Aggregate((CHOOSE e \in Range(mapping) : e.name = c).op,
                       Column(d, (CHOOSE e \in Range(mapping) : e.name = c).col),
                       {i \in 1..Len(d.rows) : d.rows[i][key] = k})]

\* one row per key cell, in the order of keys
GroupRows(d, key, keys, mapping) ==
    Frame(<<key>> \o [j \in DOMAIN mapping |-> mapping[j].name],
          [j \in 1..Len(keys) |-> GroupRow(d, key, keys[j], mapping)])

DateCells(days) == [j \in 1..Len(days) |-> Date(days[j])]

\* df.groupby(key).agg(**mapping).reset_index(): one row per distinct
\* non-null key, ascending; KeyError without the key column, TypeError
\* without any aggregation
GroupByAgg(d, key, mapping) ==
    IF key \notin Range(d.columns) THEN Raise("KeyError")
    ELSE IF mapping = <<>> THEN Raise("TypeError")
    ELSE GroupRows(d, key,
            DateCells(Ascending({d.rows[i][key].days :
                          i \in {j \in 1..Len(d.rows) : IsDate(d.rows[j][key])}})),
            mapping)

\* line 242-243: df["date"] is derived in place when it is absent
WithDate(d) ==
    IF "date" \notin Range(d.columns) /\ "timestamp" \in Range(d.columns)
    THEN SetColumn(d, "date",
            [i \in 1..Len(d.rows) |->
                DateOf(tz_convert(d.rows[i]["timestamp"], "Asia/Tokyo"))])
    ELSE d

\* p_col, p_op
PrecipSourceSummed(d) ==
    IF "precip24Hour" \in Range(d.columns)
    THEN <<[name |-> "precip", col |-> "precip24Hour", op |-> "sum"]>>
    ELSE IF "precip1Hour" \in Range(d.columns)
    THEN <<[name |-> "precip", col |-> "precip1Hour", op |-> "sum"]>>
    ELSE <<>>

PrecipSource(d) ==
    IF "precip24Hour" \in Range(d.columns)
    THEN <<[name |-> "precip", col |-> "precip24Hour", op |-> "max"]>>
    ELSE IF "precip1Hour" \in Range(d.columns)
    THEN <<[name |-> "precip", col |-> "precip1Hour", op |-> "sum"]>>
    ELSE <<>>

\* mapping, in insertion order: temp, humidity, precip
AggMapping(d) ==
    (IF "temperature" \in Range(d.columns)
     THEN <<[name |-> "temp", col |-> "temperature", op |-> "mean"]>> ELSE <<>>)
    \o (IF "relativeHumidity" \in Range(d.columns)
        THEN <<[name |-> "humidity", col |-> "relativeHumidity", op |-> "mean"]>>
        ELSE <<>>)
    \o PrecipSource(d)

\* out[col] = out[col].round(1) for the columns cols that out has
RoundColumns(out, cols) ==
    IF Raised(out) THEN out
    ELSE [columns |-> out.columns, index |-> out.index,
          rows |-> [i \in 1..Len(out.rows) |->
                      [c \in DOMAIN out.rows[i] |->
                          IF c \in cols THEN round1(out.rows[i][c])
                          ELSE out.rows[i][c]]]]

daily_aggregates(d) ==
    IF empty(d) THEN d
    ELSE RoundColumns(GroupByAgg(WithDate(d), "date", AggMapping(d)),
                      {"temp", "humidity"})

\* the caller's table after the call
DailyAggregatesArgument(d) == IF empty(d) THEN d ELSE WithDate(d)

\* ------------------------------------------------- tables of observations

\* 03:00 Japan time on day dd of the month: the UTC date is the day before
EarlyMorningJst(y, m, dd) ==
    [wall |-> WallOf(y, m, dd, 3, 0, 0) - 9 * 3600, off |-> 0]

\* the cells a column of an observation table may hold
ObsCells(c, y, m) ==
    IF c = "date" THEN {Date(DaysFromCivil(y, m, 1)), Date(DaysFromCivil(y, m, 2))}
    ELSE IF c = "timestamp"
    THEN {EarlyMorningJst(y, m, 1), EarlyMorningJst(y, m, 2), NaT}
    ELSE IF c = "temperature" THEN {Num(201), Num(205)}
    ELSE IF c = "relativeHumidity" THEN {Num(605)}
    ELSE IF c = "precip24Hour" THEN {NaN, Num(30), Num(50)}
    ELSE {Num(10), Num(25)}

\* the column lists: date or timestamp or neither, then any of the readings
ObsColumnLists ==
    {time \o t \o h \o p1 \o p24 :
        time \in {<<"date">>, <<"timestamp">>, <<>>},
        t \in {<<"temperature">>, <<>>},
        h \in {<<"relativeHumidity">>, <<>>},
        p1 \in {<<"precip1Hour">>, <<>>},
        p24 \in {<<"precip24Hour">>, <<>>}}

\* the cells of column c when the table has it, no choice when it has not
CellsIfPresent(cols, c, y, m) ==
    IF c \in Range(cols) THEN ObsCells(c, y, m) ELSE {None}

\* the rows a table with the columns cols may hold
ObsRows(cols, y, m) ==
    {[c \in Range(cols) |->
         IF c = "date" THEN dt
         ELSE IF c = "timestamp" THEN ts
         ELSE IF c = "temperature" THEN t
         ELSE IF c = "relativeHumidity" THEN h
         ELSE IF c = "precip24Hour" THEN p24
         ELSE p1] :
        dt \in CellsIfPresent(cols, "date", y, m),
        ts \in CellsIfPresent(cols, "timestamp", y, m),
        t \in CellsIfPresent(cols, "temperature", y, m),
        h \in CellsIfPresent(cols, "relativeHumidity", y, m),
        p24 \in CellsIfPresent(cols, "precip24Hour", y, m),
        p1 \in CellsIfPresent(cols, "precip1Hour", y, m)}

InitAgg ==
    /\ year \in Years
    /\ month = 6
    /\ tz_str = "Asia/Tokyo"
    /\ \E cols \in ObsColumnLists : \E k \in 0..MaxAggRows :
          \E rows \in [1..k -> ObsRows(cols, year, month)] : df = Frame(cols, rows)
    /\ g = None
    /\ ret = None
    /\ prev = None
    /\ resp = None
    /\ NewClient
    /\ pc = "start"

\* daily = daily_aggregates(raw_df)
DailyAggregates ==
    /\ pc = "start"
    /\ ret' = daily_aggregates(df)
    /\ df' = DailyAggregatesArgument(df)
    /\ pc' = "daily_aggregates"
    /\ UNCHANGED <<year, month, tz_str, g, prev, resp, jwt, jwt_time, clock, call>>

NextAgg == DailyAggregates

SpecAgg == InitAgg /\ [][NextAgg]_vars

\* the non-null cells of column c in the rows of d whose date is k
CellsOfDate(d, c, k) ==
    {d.rows[i][c].v : i \in {j \in 1..Len(d.rows) :
                                d.rows[j]["date"] = k /\ IsNum(d.rows[j][c])}}

RECURSIVE SumUpTo(_, _, _, _)
\* the sum of column c over the first n rows of d whose date is k
SumUpTo(d, c, k, n) ==
    IF n = 0 THEN 0
    ELSE SumUpTo(d, c, k, n - 1)
            + (IF d.rows[n]["date"] = k /\ IsNum(d.rows[n][c])
               THEN d.rows[n][c].v ELSE 0)

\* C4: precip24Hour, when present, decides precip: each date's precip is the
\* maximum of precip24Hour over that date's rows (not their sum), also when
\* precip1Hour is present too; with precip1Hour alone each date's precip is
\* the sum of precip1Hour over that date's rows; with neither there is no
\* precip column.  (Missing readings are skipped.)
C4_PrecipOperator ==
    (pc = "daily_aggregates" /\ IsFrame(ret) /\ ~empty(df)) =>
        /\ ("precip" \in Range(ret.columns)) <=>
              ("precip24Hour" \in Range(df.columns) \/ "precip1Hour" \in Range(df.columns))
        /\ "precip24Hour" \in Range(df.columns) =>
              \A j \in 1..Len(ret.rows) :
                  IF CellsOfDate(df, "precip24Hour", ret.rows[j]["date"]) = {}
                  THEN ret.rows[j]["precip"] = NaN
                  ELSE /\ IsNum(ret.rows[j]["precip"])
                       /\ ret.rows[j]["precip"].v
                             \in CellsOfDate(df, "precip24Hour", ret.rows[j]["date"])
                       /\ \A x \in CellsOfDate(df, "precip24Hour", ret.rows[j]["date"]) :
                             x <= ret.rows[j]["precip"].v
        /\ ("precip24Hour" \notin Range(df.columns) /\ "precip1Hour" \in Range(df.columns)) =>
              \A j \in 1..Len(ret.rows) :
                  ret.rows[j]["precip"] =
                      Num(SumUpTo(df, "precip1Hour", ret.rows[j]["date"], Len(df.rows)))

\* both precipitation columns are present and one date has the 24-hour
\* readings 3.0 and 5.0: precip is 5.0, neither 8.0 nor a sum of the hourly
\* readings
C4_Witness ==
    /\ pc = "daily_aggregates" /\ IsFrame(ret)
    /\ "precip24Hour" \in Range(df.columns)
    /\ "precip1Hour" \in Range(df.columns)
    /\ Len(df.rows) = 2 /\ Len(ret.rows) = 1
    /\ CellsOfDate(df, "precip24Hour", ret.rows[1]["date"]) = {30, 50}
    /\ ret.rows[1]["precip"] = Num(50)

\* ---------------------------------------------------------- ten_day_buckets

\* the bucket labels, as code points: "1-10", "11-20", "21-end" written with
\* U+2013 EN DASH (8211) and U+672B (26411)
Bucket1 == <<49, 8211, 49, 48>>
Bucket2 == <<49, 49, 8211, 50, 48>>
Bucket3 == <<50, 49, 8211, 26411>>

Str(s) == [s |-> s]
DayNumber(n) == [int |-> n]

\* a < b for Python strs: by code point, a proper prefix first
StrLess(a, b) ==
    \E i \in 1..(Len(a) + 1) :
        /\ \A j \in 1..(i - 1) : j <= Len(b) /\ a[j] = b[j]
        /\ IF i = Len(a) + 1 THEN Len(b) >= i
           ELSE i <= Len(b) /\ a[i] < b[i]

\* the strs of a set in ascending order
LexSorted(S) ==
    [j \in 1..Cardinality(S) |->
        CHOOSE x \in S : Cardinality({y \in S : StrLess(y, x)}) = j - 1]

bucketUpTo9(d) ==
    IF d < 10 THEN Bucket1 ELSE IF d <= 20 THEN Bucket2 ELSE Bucket3

\* def bucket(d)
bucket(d) ==
    IF d <= 10 THEN Bucket1 ELSE IF d <= 20 THEN Bucket2 ELSE Bucket3

\* g["day"] = pd.to_datetime(g["date"]).dt.day
WithDay(d) ==
    SetColumn(d, "day",
        [i \in 1..Len(d.rows) |-> DayNumber(CivilFromDays(d.rows[i]["date"].days).day)])

\* g["bucket"] = g["day"].apply(bucket)
WithBucket(d) ==
    SetColumn(d, "bucket", [i \in 1..Len(d.rows) |-> Str(bucket(d.rows[i]["day"].int))])

\* agg_map, in insertion order
agg_map(d) ==
    (IF "temp" \in Range(d.columns)
     THEN <<[name |-> "temp", col |-> "temp", op |-> "mean"]>> ELSE <<>>)
    \o (IF "humidity" \in Range(d.columns)
        THEN <<[name |-> "humidity", col |-> "humidity", op |-> "mean"]>> ELSE <<>>)
    \o (IF "precip" \in Range(d.columns)
        THEN <<[name |-> "precip", col |-> "precip", op |-> "sum"]>> ELSE <<>>)

StrCells(strs) == [j \in 1..Len(strs) |-> Str(strs[j])]

\* g[["bucket"]].drop_duplicates().sort_values("bucket").reset_index(drop=True):
\* a column of strs is sorted as strs
DistinctBuckets(d) ==
    Frame(<<"bucket">>,
          [j \in 1..Cardinality({d.rows[i]["bucket"].s : i \in 1..Len(d.rows)}) |->
              [c \in {"bucket"} |->
                  Str(LexSorted({d.rows[i]["bucket"].s : i \in 1..Len(d.rows)})[j])]])

\* g.groupby("bucket", as_index=False).agg(agg_map): one row per bucket
GroupByBucket(d, mapping) ==
    GroupRows(d, "bucket",
              StrCells(LexSorted({d.rows[i]["bucket"].s : i \in 1..Len(d.rows)})),
              mapping)

Categories == <<Bucket1, Bucket2, Bucket3>>

\* the code of a str in the ordered categorical dtype
CategoryCode(x) == CHOOSE i \in DOMAIN Categories : Categories[i] = x

\* out["bucket"].astype(order); out.sort_values("bucket").reset_index(drop=True)
\* for rows with distinct buckets
SortByCategoryUnsorted(out) == out

SortByCategory(out) ==
    Frame(out.columns,
          [j \in 1..Len(out.rows) |->
              out.rows[CHOOSE i \in 1..Len(out.rows) :
                  Cardinality({k \in 1..Len(out.rows) :
                      CategoryCode(out.rows[k]["bucket"].s)
                          < CategoryCode(out.rows[i]["bucket"].s)}) = j - 1]])

TenDayAggregate(d, mapping) ==
    IF mapping = <<>> THEN DistinctBuckets(d)
    ELSE RoundColumns(SortByCategory(GroupByBucket(d, mapping)), {"temp", "humidity"})

\* the early return: no table, an empty table, a table without date
TenDayNoInput(d) ==
    IF d = None THEN TRUE ELSE (empty(d) \/ "date" \notin Range(d.columns))

\* g after line 279
TenDayWorkingCopy(d) ==
    IF TenDayNoInput(d) THEN None ELSE WithBucket(WithDay(d))

TenDayResult(d, gg) ==
    IF gg = None THEN EmptyFrame ELSE TenDayAggregate(gg, agg_map(gg))

ten_day_buckets(d) == TenDayResult(d, TenDayWorkingCopy(d))

\* ----------------------------------------------------------- daily tables

\* the column lists of a daily table: date, then any of temp, humidity, precip
DailyColumnLists ==
    {<<"date">> \o t \o h \o p :
        t \in {<<"temp">>, <<>>}, h \in {<<"humidity">>, <<>>}, p \in {<<"precip">>, <<>>}}

\* the readings of one day: a cool dry day or a warm wet one; no mean of
\* these falls exactly halfway between two tenths, where round(1) of the
\* binary float is not decided by the decimal digits
DayProfiles ==
    {[temp |-> Num(100), humidity |-> Num(600), precip |-> Num(7)],
     [temp |-> Num(104), humidity |-> Num(600), precip |-> Num(25)]}

\* the days of the month the rows are drawn from: every day for a table of
\* one row, days on both sides of the bucket borders for a longer table
DayChoices(y, m, k) ==
    IF k <= 1 THEN 1..monthrange(y, m) ELSE {1, 5, 10, 11, 21}

DailyRow(cols, y, m, dd, prof) ==
    [c \in Range(cols) |-> IF c = "date" THEN Date(DaysFromCivil(y, m, dd)) ELSE prof[c]]

DailyFrame(cols, y, m, days, profs) ==
    Frame(cols, [i \in 1..Len(days) |-> DailyRow(cols, y, m, days[i], profs[i])])

Injective(f) == \A i, j \in DOMAIN f : f[i] = f[j] => i = j

\* a month of 31 days, February, and a month of 30 days
MonthsByLength == {1, 2, 4}

InitBuckets ==
    /\ year \in Years
    /\ month \in MonthsByLength
    /\ tz_str = "Asia/Tokyo"
    /\ \/ df = None
       \/ df = Frame(<<"temp">>, <<[c \in {"temp"} |-> Num(100)]>>)
       \/ \E cols \in DailyColumnLists : \E k \in 0..MaxDailyRows :
             \E days \in [1..k -> DayChoices(year, month, k)] :
                 \E profs \in [1..k -> DayProfiles] :
                     /\ Injective(days)
                     /\ df = DailyFrame(cols, year, month, days, profs)
    /\ g = None
    /\ ret = None
    /\ prev = None
    /\ resp = None
    /\ NewClient
    /\ pc = "start"

\* ten_df = ten_day_buckets(daily)
TenDayBuckets ==
    /\ pc = "start"
    /\ g' = TenDayWorkingCopy(df)
    /\ ret' = ten_day_buckets(df)
    /\ pc' = "ten_day_buckets"
    /\ UNCHANGED <<year, month, tz_str, df, prev, resp, jwt, jwt_time, clock, call>>

NextBuckets == TenDayBuckets

SpecBuckets == InitBuckets /\ [][NextBuckets]_vars

\* the label the claims give day-of-month dd
LabelOfDay(dd) ==
    IF dd \in 1..10 THEN Bucket1 ELSE IF dd \in 11..20 THEN Bucket2 ELSE Bucket3

\* C5: every input date gets exactly one of the three labels, by its
\* day-of-month d: d <= 10 "1-10", 11 <= d <= 20 "11-20", d >= 21 "21-end",
\* for every month length 28..31; no row is left without a label and no
\* fourth label occurs.
C5_BucketByDayOfMonth ==
    (pc = "ten_day_buckets" /\ g # None) =>
        /\ Len(g.rows) = Len(df.rows)
        /\ monthrange(year, month) \in 28..31
        /\ \A i \in 1..Len(df.rows) :
              /\ g.rows[i]["bucket"].s \in {Bucket1, Bucket2, Bucket3}
              /\ \E dd \in 1..monthrange(year, month) :
                    /\ df.rows[i]["date"] = Date(DaysFromCivil(year, month, dd))
                    /\ g.rows[i]["bucket"] = Str(LabelOfDay(dd))

\* 29 February 2024 falls in the last bucket
C5_Witness ==
    /\ pc = "ten_day_buckets" /\ g # None
    /\ year = 2024 /\ month = 2
    /\ Len(df.rows) = 1
    /\ df.rows[1]["date"] = Date(DaysFromCivil(2024, 2, 29))
    /\ g.rows[1]["bucket"] = Str(Bucket3)

\* the daily rows of the working copy that fall in bucket b
RowsInBucket(b) == {i \in 1..Len(g.rows) : g.rows[i]["bucket"] = Str(b)}

\* the labels that have a daily row, in the canonical order
PresentBuckets == SelectSeq(Categories, LAMBDA b : RowsInBucket(b) # {})

\* the bucket column of the result, top to bottom
ResultBuckets == [i \in 1..Len(ret.rows) |-> ret.rows[i]["bucket"].s]

RECURSIVE BucketTotal(_, _, _)
\* the sum of column c over the first n daily rows that fall in bucket b
BucketTotal(c, b, n) ==
    IF n = 0 THEN 0
    ELSE BucketTotal(c, b, n - 1)
            + (IF g.rows[n]["bucket"] = Str(b) THEN g.rows[n][c].v ELSE 0)

Distance(a, b) == IF a >= b THEN a - b ELSE b - a

\* x is v/n to the nearest tenth, v and x in tenths
NearestTenth(x, v, n) == 2 * Distance(n * x, v) <= n

MetricsPresent == Range(df.columns) \cap {"temp", "humidity", "precip"}

\* C6 as stated: with a metric column the result has one row per bucket that
\* has a daily row, in the canonical order, its precip the sum and its temp
\* and humidity the mean of the bucket's daily rows.
C6_SumAndExactMean ==
    (pc = "ten_day_buckets" /\ g # None /\ MetricsPresent # {}) =>
        /\ ResultBuckets = PresentBuckets
        /\ \A i \in 1..Len(ret.rows) :
              /\ DOMAIN ret.rows[i] = {"bucket"} \cup MetricsPresent
              /\ \A c \in MetricsPresent :
                    /\ IsNum(ret.rows[i][c])
                    /\ IF c = "precip"
                       THEN ret.rows[i][c].v
                                = BucketTotal(c, ret.rows[i]["bucket"].s, Len(g.rows))
                       ELSE ret.rows[i][c].v
                                * Cardinality(RowsInBucket(ret.rows[i]["bucket"].s))
                                = BucketTotal(c, ret.rows[i]["bucket"].s, Len(g.rows))

\* C6: with a metric column the result has one row per bucket that has a
\* daily row and none for the others, in the canonical order whatever the
\* order of the daily rows; its precip is the sum, and its temp and humidity
\* the mean to the nearest tenth, of the bucket's daily rows.
C6_SumAndRoundedMean ==
    (pc = "ten_day_buckets" /\ g # None /\ MetricsPresent # {}) =>
        /\ ResultBuckets = PresentBuckets
        /\ \A i \in 1..Len(ret.rows) :
              /\ DOMAIN ret.rows[i] = {"bucket"} \cup MetricsPresent
              /\ \A c \in MetricsPresent :
                    /\ IsNum(ret.rows[i][c])
                    /\ IF c = "precip"
                       THEN ret.rows[i][c].v
                                = BucketTotal(c, ret.rows[i]["bucket"].s, Len(g.rows))
                       ELSE NearestTenth(ret.rows[i][c].v,
                                BucketTotal(c, ret.rows[i]["bucket"].s, Len(g.rows)),
                                Cardinality(RowsInBucket(ret.rows[i]["bucket"].s)))

\* the 10th, 1st and 5th in that order, 10.0, 10.0 and 10.4 degrees: one row
\* for the first bucket, 10.1 degrees and the three days' rain
C6_Witness ==
    /\ pc = "ten_day_buckets" /\ g # None
    /\ df.columns = <<"date", "temp", "precip">>
    /\ [i \in 1..Len(df.rows) |-> df.rows[i]["date"]]
          = <<Date(DaysFromCivil(year, month, 10)), Date(DaysFromCivil(year, month, 1)),
              Date(DaysFromCivil(year, month, 5))>>
    /\ [i \in 1..Len(df.rows) |-> df.rows[i]["temp"]] = <<Num(100), Num(100), Num(104)>>
    /\ ret.rows = <<[bucket |-> Str(Bucket1), temp |-> Num(101), precip |-> Num(39)]>>

\* C7 as stated: without temp, humidity and precip the result is the distinct
\* buckets present, with no metric column, in the canonical order "1-10",
\* "11-20", "21-end".
C7_NoMetricCanonicalOrder ==
    (pc = "ten_day_buckets" /\ g # None /\ MetricsPresent = {}) =>
        /\ ret.columns = <<"bucket">>
        /\ ResultBuckets = PresentBuckets

\* ------------------------------------------------------- guess_sales_column

\* Column names are Python strs, written as their code points. The kanji of
\* the code are U+58F2 (22770, sell), U+8CA9 (36009, sale), U+51FA U+8377
\* (20986 33655, ship), U+6570 (25968, number), U+500B (20491, pieces),
\* U+91CF (37327, quantity), U+4E0A (19978), U+9AD8 (39640), and the kana
\* U+308C U+305F (12428 12383).

\* exclude
Exclude ==
    {<<100, 97, 116, 101>>,   \* date
     <<116, 101, 109, 112>>,   \* temp
     <<104, 117, 109, 105, 100, 105, 116, 121>>,   \* humidity
     <<112, 114, 101, 99, 105, 112>>,   \* precip
     <<116, 101, 109, 112, 101, 114, 97, 116, 117, 114, 101>>,   \* temperature
     <<114, 101, 108, 97, 116, 105, 118, 101, 72, 117, 109, 105, 100, 105, 116, 121>>,   \* relativeHumidity
     <<112, 114, 101, 99, 105, 112, 49, 72, 111, 117, 114>>,   \* precip1Hour
     <<112, 114, 101, 99, 105, 112, 50, 52, 72, 111, 117, 114>>}   \* precip24Hour

\* priority
priority ==
    <<<<22770, 12428, 12383, 20491, 25968>>,
      <<22770, 19978, 20491, 25968>>,
      <<36009, 22770, 20491, 25968>>,
      <<36009, 22770, 25968, 37327>>,
      <<22770, 19978, 25968>>,
      <<36009, 22770, 25968>>,
      <<20491, 25968>>,
      <<25968, 37327>>,
      <<117, 110, 105, 116, 115, 95, 115, 111, 108, 100>>,   \* units_sold
      <<113, 116, 121, 95, 115, 111, 108, 100>>,   \* qty_sold
      <<115, 111, 108, 100>>,   \* sold
      <<115, 97, 108, 101, 115, 95, 113, 116, 121>>,   \* sales_qty
      <<115, 97, 108, 101, 115>>,   \* sales
      <<20986, 33655, 25968>>>>

\* ["sell", "sale", "ship"] and ["number", "pieces", "quantity"] of line 340
SoldTokens == {<<22770>>, <<36009>>, <<20986, 33655>>}
CountTokens == {<<25968>>, <<20491>>, <<37327>>}

LowerUnchanged(s) == s

\* str.lower() of a name of ASCII letters, digits, kana and kanji
Lower(s) == [i \in DOMAIN s |-> IF s[i] \in 65..90 THEN s[i] + 32 ELSE s[i]]

\* k in s
Contains(s, k) == \E i \in 1..(Len(s) - Len(k) + 1) : SubSeq(s, i, i + Len(k) - 1) = k

\* any(k in s for k in tokens)
HasAny(s, tokens) == \E k \in tokens : Contains(s, k)

JapaneseHintSoldOnly(s) == HasAny(s, SoldTokens)

\* line 340
JapaneseHint(s) == HasAny(s, SoldTokens) /\ HasAny(s, CountTokens)

is_numeric_dtypeAny(dtype) == dtype \in {"int64", "object"}

\* pd.api.types.is_numeric_dtype, for the dtypes of the tables below
is_numeric_dtype(dtype) == dtype \in {"int64", "float64"}

IsNumericCandidate(d, c) == c \notin Exclude /\ is_numeric_dtype(d.dtypes[c])

\* numeric_cols
numeric_cols(d) == SelectSeq(d.columns, LAMBDA c : IsNumericCandidate(d, c))

Min(S) == CHOOSE x \in S : \A y \in S : x <= y

\* the entries of priority that some column equals, lower-cased
MatchingEntries(cols) ==
    {j \in DOMAIN priority : \E i \in DOMAIN cols : Lower(cols[i]) = Lower(priority[j])}

\* the inner loop over lower_map: the first column that lower-cases to name_l
FirstMatch(cols, name_l) == cols[Min({i \in DOMAIN cols : Lower(cols[i]) = name_l})]

\* the outer loop over priority
ByPriority(cols) == FirstMatch(cols, Lower(priority[Min(MatchingEntries(cols))]))

\* lines 338-341
ByHint(cols) == cols[Min({i \in DOMAIN cols : JapaneseHint(cols[i])})]

GuessAmong(cols) ==
    IF cols = <<>> THEN None
    ELSE IF MatchingEntries(cols) # {} THEN Str(ByPriority(cols))
    ELSE IF \E i \in DOMAIN cols : JapaneseHint(cols[i]) THEN Str(ByHint(cols))
    ELSE Str(cols[1])

guess_sales_column(d) ==
    IF d = None THEN None
    ELSE IF empty(d) THEN None
    ELSE GuessAmong(numeric_cols(d))

\* ----------------------------------------------------------- joined tables

\* names a joined table is given columns from
ColTemperature == <<116, 101, 109, 112, 101, 114, 97, 116, 117, 114, 101>>
ColUretaKosu == <<22770, 12428, 12383, 20491, 25968>>
ColSales == <<83, 97, 108, 101, 115>>
ColShukkaKosu == <<20986, 33655, 20491, 25968>>
ColUriagedaka == <<22770, 19978, 39640>>
ColShippedUnits == <<115, 104, 105, 112, 112, 101, 100, 95, 117, 110, 105, 116, 115>>
ColRandomMetric == <<114, 97, 110, 100, 111, 109, 95, 109, 101, 116, 114, 105, 99>>

ColumnPool ==
    {ColTemperature, ColUretaKosu, ColSales, ColShukkaKosu, ColUriagedaka,
     ColShippedUnits, ColRandomMetric}

\* what a column holds
ColumnKinds == {"text", "number"}

DtypeOf(kind) == IF kind = "text" THEN "object" ELSE "int64"

CellOf(kind) ==
    IF kind = "text" THEN Str(<<120>>) ELSE Num(30)

RowCounts == {0, 1}

\* a table of n equal rows
Table(cols, kinds, n) ==
    [columns |-> cols,
     dtypes |-> [c \in Range(cols) |-> DtypeOf(kinds[c])],
     index |-> [i \in 1..n |-> i - 1],
     rows |-> [i \in 1..n |-> [c \in Range(cols) |-> CellOf(kinds[c])]]]

InitGuess ==
    /\ year = FirstYear
    /\ month = 1
    /\ tz_str = "Asia/Tokyo"
    /\ \/ df = None
       \/ \E k \in 0..MaxCols : \E cols \in [1..k -> ColumnPool] :
             /\ Injective(cols)
             /\ \E kinds \in [Range(cols) -> ColumnKinds] : \E n \in RowCounts :
                   df = Table(cols, kinds, n)
    /\ g = None
    /\ ret = None
    /\ prev = None
    /\ resp = None
    /\ NewClient
    /\ pc = "start"

\* guessed = guess_sales_column(joined)
GuessSalesColumn ==
    /\ pc = "start"
    /\ ret' = guess_sales_column(df)
    /\ pc' = "guess_sales_column"
    /\ UNCHANGED <<year, month, tz_str, df, g, prev, resp, jwt, jwt_time, clock, call>>

NextGuess == GuessSalesColumn

SpecGuess == InitGuess /\ [][NextGuess]_vars

Guessed == pc = "guess_sales_column"

\* the numeric columns of the table outside the exclusion set
Candidates ==
    IF df = None THEN {}
    ELSE {c \in Range(df.columns) : c \notin Exclude /\ df.dtypes[c] = "int64"}

FoldCase(x) == IF x \in 65..90 THEN x + 32 ELSE x

SameIgnoringCase(a, b) ==
    Len(a) = Len(b) /\ \A i \in 1..Len(a) : FoldCase(a[i]) = FoldCase(b[i])

\* the entries of the priority list that a candidate equals, ignoring case
EntriesMatched ==
    {j \in DOMAIN priority : \E c \in Candidates : SameIgnoringCase(c, priority[j])}

\* the result is a candidate that equals the earliest matched entry
EarliestEntryReturned ==
    \E j \in EntriesMatched :
        /\ \A k \in EntriesMatched : j <= k
        /\ \E c \in Candidates : ret = Str(c) /\ SameIgnoringCase(c, priority[j])

\* C8 as stated: only numeric columns outside the exclusion set are returned,
\* and when one of them equals an entry of the priority list, ignoring case,
\* the column matching the earliest such entry is returned, for every table.
C8_EarliestPriorityEntryAnyTable ==
    Guessed =>
        /\ ret # None => \E c \in Candidates : ret = Str(c)
        /\ EntriesMatched # {} => EarliestEntryReturned

\* C8: for a table that has rows, only numeric columns outside the exclusion
\* set are returned, and when one of them equals an entry of the priority
\* list, ignoring case, the column matching the earliest such entry is
\* returned, whatever the order of the columns and whichever later entries
\* other columns match; an excluded column is never returned.
C8_EarliestPriorityEntry ==
    Guessed =>
        /\ ret # None => \E c \in Candidates : ret = Str(c)
        /\ (df # None /\ ~empty(df) /\ EntriesMatched # {}) => EarliestEntryReturned

\* random_metric, Sales and the first entry of the list, in that order: the
\* last column is the guess
C8_Witness ==
    /\ Guessed
    /\ df # None
    /\ df.columns = <<ColRandomMetric, ColSales, ColUretaKosu>>
    /\ \A c \in Range(df.columns) : df.dtypes[c] = "int64"
    /\ Len(df.rows) = 1
    /\ ret = Str(ColUretaKosu)

\* name has a token of either kind of line 340
BearsKanjiTokens(name) ==
    /\ \E k \in SoldTokens : Contains(name, k)
    /\ \E k \in CountTokens : Contains(name, k)

\* name has tokens as the claim reads them: shipped_units qualifies
BearsStatedTokens(name) ==
    \/ BearsKanjiTokens(name)
    \/ Contains(name, <<115, 104, 105, 112, 112, 101, 100>>) /\ Contains(name, <<117, 110, 105, 116, 115>>)

\* the result is the first candidate, in column order, that satisfies P
FirstCandidateWith(P(_)) ==
    \E i \in DOMAIN df.columns :
        /\ df.columns[i] \in Candidates /\ P(df.columns[i])
        /\ ret = Str(df.columns[i])
        /\ \A j \in 1..(i - 1) : ~(df.columns[j] \in Candidates /\ P(df.columns[j]))

AnyName(name) == TRUE

NoExactMatch ==
    Guessed /\ df # None /\ ~empty(df) /\ Candidates # {} /\ EntriesMatched = {}

\* C9 as stated: without an exact match, a candidate with a token of the
\* sold/sale/shipped set and one of the count/quantity set is returned in
\* preference to the candidates without, whatever the column order, and
\* shipped_units is such a candidate; without any, the first candidate.
C9_StatedTokensPreferred ==
    NoExactMatch =>
        IF \E c \in Candidates : BearsStatedTokens(c)
        THEN \E c \in Candidates : BearsStatedTokens(c) /\ ret = Str(c)
        ELSE FirstCandidateWith(AnyName)

\* C9: for a table that has rows and no exact match, the first candidate in
\* column order whose name contains one of the kanji for sell, sale, ship and
\* one of the kanji for number, pieces, quantity is returned in preference to
\* the candidates without, whatever the column order; without any such
\* candidate the first candidate in column order is returned.
C9_KanjiTokensPreferred ==
    NoExactMatch =>
        IF \E c \in Candidates : BearsKanjiTokens(c)
        THEN FirstCandidateWith(BearsKanjiTokens)
        ELSE FirstCandidateWith(AnyName)

\* random_metric, a name with a sell token only, and a name with ship and
\* pieces tokens: the last is the guess
C9_Witness ==
    /\ NoExactMatch
    /\ df.columns = <<ColRandomMetric, ColUriagedaka, ColShukkaKosu>>
    /\ \A c \in Range(df.columns) : df.dtypes[c] = "int64"
    /\ ret = Str(ColShukkaKosu)

\* the table with other numbers in one numeric column
Revalued ==
    IF df = None THEN {}
    ELSE {[df EXCEPT !.rows = [i \in DOMAIN df.rows |-> [df.rows[i] EXCEPT ![c] = v]]] :
             c \in {x \in Range(df.columns) : df.dtypes[x] = "int64"},
             v \in {Num(0), Num(90000)}}

\* a column name of the table, or the not-found result
NameOrNotFound == ret = None \/ \E c \in Range(df.columns) : ret = Str(c)

\* C10 as stated: the result is a column name or not-found; not-found exactly
\* when no numeric column remains outside the exclusion set, otherwise a
\* numeric column of the table outside the exclusion set; the data values
\* do not matter.
C10_NotFoundIffNoCandidate ==
    Guessed =>
        /\ NameOrNotFound
        /\ ret = None <=> Candidates = {}
        /\ ret # None => \E c \in Candidates : ret = Str(c)
        /\ \A d \in Revalued : guess_sales_column(d) = ret

\* C10: the result is a column name or not-found; not-found exactly when
\* there is no table, the table has no rows or no columns, or no numeric
\* column remains outside the exclusion set, otherwise a numeric column of
\* the table outside the exclusion set; the data values do not matter.
C10_NotFoundIffEmptyOrNoCandidate ==
    Guessed =>
        /\ NameOrNotFound
        /\ ret = None <=> (df = None \/ Candidates = {} \/ Len(df.rows) = 0)
        /\ ret # None => \E c \in Candidates : ret = Str(c)
        /\ \A d \in Revalued : guess_sales_column(d) = ret

\* a table with a numeric column named Sales and no rows: not found
C10_Witness ==
    /\ Guessed
    /\ df # None
    /\ df.columns = <<ColSales>>
    /\ df.dtypes[ColSales] = "int64"
    /\ Len(df.rows) = 0
    /\ ret = None

\* -------------------------------------------------- prepare_inventory_daily

\* "date", the column of line 45 (U+65E5 U+4ED8) and a column of quantities
ColDate == <<100, 97, 116, 101>>
ColHizuke == <<26085, 20184>>
ColStock == <<115, 116, 111, 99, 107>>

\* a cell of text that reads as the calendar day y-m-d
DayText(y, m, d) == [isodate |-> [year |-> y, month |-> m, day |-> d]]

\* pd.to_datetime(x, errors="coerce").dt.date of one cell
to_date(x) ==
    IF "isodate" \in DOMAIN x
    THEN Date(DaysFromCivil(x.isodate.year, x.isodate.month, x.isodate.day))
    ELSE NaT

\* s.replace(",", "")
RemoveCommas(s) == SelectSeq(s, LAMBDA ch : ch # 44)

IsDigits(s) == Len(s) > 0 /\ \A i \in 1..Len(s) : s[i] \in 48..57

RECURSIVE DigitsValue(_)
DigitsValue(s) ==
    IF s = <<>> THEN 0
    ELSE 10 * DigitsValue(SubSeq(s, 1, Len(s) - 1)) + (s[Len(s)] - 48)

\* pd.to_numeric(text, errors="coerce") of text of digits, or of other text
ParsedNumber(digits) == IF IsDigits(digits) THEN Num(10 * DigitsValue(digits)) ELSE NaN

\* line 55 for one cell
to_numeric(x) ==
    IF "s" \in DOMAIN x THEN ParsedNumber(RemoveCommas(x.s))
    ELSE IF IsNum(x) THEN x ELSE NaN

\* a table with dtypes: x[c] = vals
TypedSetColumn(d, c, vals, dtype) ==
    [columns |-> IF c \in Range(d.columns) THEN d.columns ELSE Append(d.columns, c),
     dtypes |-> [k \in Range(d.columns) \cup {c} |-> IF k = c THEN dtype ELSE d.dtypes[k]],
     index |-> d.index,
     rows |-> [i \in 1..Len(d.rows) |->
                 [k \in Range(d.columns) \cup {c} |->
                     IF k = c THEN vals[i] ELSE d.rows[i][k]]]]

\* x[mask] for the positions keep
TypedKeep(d, keep) ==
    [d EXCEPT !.index = Take(d.index, keep), !.rows = Take(d.rows, keep)]

\* lines 49-50
InvDated(d) ==
    TypedKeep(
        TypedSetColumn(d, ColDate,
            [i \in 1..Len(d.rows) |-> to_date(d.rows[i][ColHizuke])], "object"),
        Ascending({i \in 1..Len(d.rows) : to_date(d.rows[i][ColHizuke]) # NaT}))

InvConverted(x, c) == c \notin {ColDate, ColHizuke} /\ x.dtypes[c] = "object"

\* lines 53-55
InvNumeric(x) ==
    [columns |-> x.columns,
     dtypes |-> [c \in Range(x.columns) |->
                    IF InvConverted(x, c) THEN "float64" ELSE x.dtypes[c]],
     index |-> x.index,
     rows |-> [i \in 1..Len(x.rows) |->
                 [c \in Range(x.columns) |->
                     IF InvConverted(x, c) THEN to_numeric(x.rows[i][c])
                     ELSE x.rows[i][c]]]]

InMonth(days, y, m) == CivilFromDays(days).year = y /\ CivilFromDays(days).month = m

\* lines 58-60
InvMonthRows(x, y, m) ==
    IF y # 0 /\ m # 0
    THEN TypedKeep(x, Ascending({i \in 1..Len(x.rows) :
                                    InMonth(x.rows[i][ColDate].days, y, m)}))
    ELSE x

\* num_cols
InvNumCols(x) ==
    SelectSeq(x.columns,
              LAMBDA c : c \notin {ColDate, ColHizuke} /\ is_numeric_dtype(x.dtypes[c]))

\* one row of x.groupby("date", as_index=False)[num_cols].sum()
InvSumRow(x, cols, k) ==
    [c \in {ColDate} \cup Range(cols) |->
        IF c = ColDate THEN k
        ELSE SumOf(Column(x, c),
                   {i \in 1..Len(x.rows) : x.rows[i][ColDate] = k /\ IsNum(x.rows[i][c])})]

InvSumRows(x, cols, keys) ==
    Frame(<<ColDate>> \o cols, [j \in 1..Len(keys) |-> InvSumRow(x, cols, keys[j])])

\* x[["date"]].drop_duplicates(): the first row of every date, labels kept
InvDistinctDates(x, keep) ==
    [columns |-> <<ColDate>>,
     index |-> Take(x.index, keep),
     rows |-> [j \in 1..Len(keep) |-> [c \in {ColDate} |-> x.rows[keep[j]][ColDate]]]]

\* lines 63-67
InvDaily(x) ==
    IF InvNumCols(x) # <<>>
    THEN InvSumRows(x, InvNumCols(x),
                    DateCells(Ascending({x.rows[i][ColDate].days : i \in 1..Len(x.rows)})))
    ELSE InvDistinctDates(x,
            Ascending({i \in 1..Len(x.rows) :
                          \A j \in 1..(i - 1) : x.rows[j][ColDate] # x.rows[i][ColDate]}))

prepare_inventory_daily(d, y, m) ==
    IF d = None THEN EmptyFrame
    ELSE IF empty(d) THEN EmptyFrame
    ELSE IF ColHizuke \notin Range(d.columns) THEN Raise("ValueError")
    ELSE InvDaily(InvMonthRows(InvNumeric(InvDated(d)), y, m))

\* ------------------------------------------------------- inventory tables

InvColumnPool == {ColDate, ColHizuke, ColStock}

\* "1,234" and "x"
StockTexts == {Str(<<49, 44, 50, 51, 52>>), Str(<<120>>)}

\* the cells of column c of dtype dt, for the month m of year y
InvCells(c, dt, y, m) ==
    IF c = ColHizuke
    THEN {DayText(y, m, 1), DayText(y, m, 2), DayText(y, m + 1, 1), Str(<<120>>)}
    ELSE IF c = ColDate THEN {DayText(y, m, 15)}
    ELSE IF dt = "int64" THEN {Num(30), Num(50)}
    ELSE StockTexts

InvDtypes(cols, stock) == [c \in Range(cols) |-> IF c = ColStock THEN stock ELSE "object"]

InvRows(cols, dts, y, m) ==
    {r \in [Range(cols) -> UNION {InvCells(c, dts[c], y, m) : c \in Range(cols)}] :
        \A c \in Range(cols) : r[c] \in InvCells(c, dts[c], y, m)}

InvTable(cols, dts, rows) ==
    [columns |-> cols, dtypes |-> dts,
     index |-> [i \in 1..Len(rows) |-> i - 1], rows |-> rows]

InitInventory ==
    /\ year \in Years
    /\ month = 6
    /\ tz_str = "Asia/Tokyo"
    /\ \/ df = None
       \/ \E n \in 0..Cardinality(InvColumnPool) : \E cols \in [1..n -> InvColumnPool] :
             /\ Injective(cols)
             /\ \E stock \in {"int64", "object"} : \E k \in 0..MaxInvRows :
                   \E rows \in [1..k -> InvRows(cols, InvDtypes(cols, stock), year, month)] :
                       df = InvTable(cols, InvDtypes(cols, stock), rows)
    /\ g = None
    /\ ret = None
    /\ prev = None
    /\ resp = None
    /\ NewClient
    /\ pc = "start"

\* inv_daily = prepare_inventory_daily(inv_raw, int(year), int(month))
PrepareInventoryDaily ==
    /\ pc = "start"
    /\ ret' = prepare_inventory_daily(df, year, month)
    /\ pc' = "prepare_inventory_daily"
    /\ UNCHANGED <<year, month, tz_str, df, g, prev, resp, jwt, jwt_time, clock, call>>

NextInventory == PrepareInventoryDaily

SpecInventory == InitInventory /\ [][NextInventory]_vars

\* C11 as stated: a table whose date-bearing column is named "date" or by
\* the column of line 45 is accepted; the missing-column failure is raised
\* only for a non-empty table with neither; an empty or absent table gives
\* an empty result.
C11_DateOrHizukeAccepted ==
    pc = "prepare_inventory_daily" =>
        IF df = None THEN ret = EmptyFrame
        ELSE IF empty(df) THEN ret = EmptyFrame
        ELSE ret = Raise("ValueError")
                <=> (ColDate \notin Range(df.columns) /\ ColHizuke \notin Range(df.columns))

\* the table has neither timestamp nor date nor a timestamp candidate
NoTimeColumns(d) ==
    /\ "timestamp" \notin Range(d.columns)
    /\ "date" \notin Range(d.columns)
    /\ \A i \in DOMAIN TimestampCandidates : TimestampCandidates[i] \notin Range(d.columns)

\* C12 as stated: for a non-empty table without timestamp, date and
\* timestamp candidates, clamp_to_month_local and daily_aggregates each
\* return without raising and leave the table as it is.
C12_NoTimeColumnsNoOp ==
    (pc = "daily_aggregates" /\ ~empty(df) /\ NoTimeColumns(df)) =>
        /\ clamp_to_month_local(df, year, month, tz_str) = df
        /\ ~Raised(ret)
        /\ ret = df

\* --------------------------------------------------- TwcClient.to_dataframe

\* JSON values: a list, a mapping with its keys in order, or a scalar cell
List(elems) == [list |-> elems]
Mapping(keys, vals) == [keys |-> keys, vals |-> vals]
IsList(x) == "list" \in DOMAIN x
IsMapping(x) == "keys" \in DOMAIN x

\* list_keys
list_keys(payload) == SelectSeq(payload.keys, LAMBDA k : IsList(payload.vals[k]))

\* n = max(len(payload[k]) for k in list_keys)
LongestList(payload, lk) ==
    CHOOSE n \in {Len(payload.vals[k].list) : k \in Range(lk)} :
        \A k \in Range(lk) : Len(payload.vals[k].list) <= n

\* lines 95-103: pd.DataFrame(rows) when the lists are equally long
SeriesFrame(payload, lk, n) ==
    IF \A k \in Range(lk) : Len(payload.vals[k].list) = n
    THEN IF n = 0 THEN EmptyFrame
         ELSE Frame(lk, [i \in 1..n |-> [k \in Range(lk) |-> payload.vals[k].list[i]]])
    ELSE None

SeriesOfLists(payload, lk) ==
    IF lk = <<>> THEN None ELSE SeriesFrame(payload, lk, LongestList(payload, lk))

\* TwcClient._from_series_dict
from_series_dict(payload) == SeriesOfLists(payload, list_keys(payload))

ContainerKeys == <<"data", "observations", "series", "result", "results">>

ContainerHits(r) ==
    {i \in DOMAIN ContainerKeys :
        ContainerKeys[i] \in Range(r.keys) /\ IsList(r.vals[ContainerKeys[i]])}

\* lines 122-132: data
Flatten(r) ==
    IF IsList(r) THEN r.list
    ELSE IF IsMapping(r) /\ ContainerHits(r) # {}
    THEN r.vals[ContainerKeys[Min(ContainerHits(r))]].list
    ELSE <<r>>

RECURSIVE FieldsInOrder(_, _)
\* the keys of the first n records, in the order they first appear
FieldsInOrder(data, n) ==
    IF n = 0 THEN <<>>
    ELSE FieldsInOrder(data, n - 1)
            \o SelectSeq(data[n].keys,
                         LAMBDA k : \A j \in 1..(n - 1) : k \notin Range(data[j].keys))

NormalizedRows(data, cols) ==
    Frame(cols,
          [i \in 1..Len(data) |->
              [c \in Range(cols) |->
                  IF c \in Range(data[i].keys) THEN data[i].vals[c] ELSE NaN]])

\* pd.json_normalize(data, max_level=1) of records whose values are scalars
\* or lists; a record that is no mapping has no .values()
json_normalize(data) ==
    IF data = <<>> THEN EmptyFrame
    ELSE IF \E i \in 1..Len(data) : ~IsMapping(data[i]) THEN Raise("AttributeError")
    ELSE NormalizedRows(data, FieldsInOrder(data, Len(data)))

\* lines 115-133
FlattenedFrame(r, cand) == IF cand # None THEN cand ELSE json_normalize(Flatten(r))

ResolveFirstCandidate(d, cand) == IF cand = None THEN d ELSE ResolveTimestamp(d, cand.name)

\* lines 136-142
ResolveCandidates(d) == IF Raised(d) THEN d ELSE ResolveFirstCandidate(d, FirstCandidate(d))

to_dataframe(r) ==
    ResolveCandidates(FlattenedFrame(r, IF IsMapping(r) THEN from_series_dict(r) ELSE None))

\* ---------------------------------------------------------------- payloads

PayloadKeys == {"data", "results", "validTimeLocal", "temperature"}

\* noon and midnight of the first day of the month, Japan time
PayloadTime(y, m, h) == IsoLocalString(WallOf(y, m, 1, h, 0, 0) - 9 * 3600)

\* one reading with both fields, one with the time only
Reading(y, m) ==
    Mapping(<<"validTimeLocal", "temperature">>,
            [k \in {"validTimeLocal", "temperature"} |->
                IF k = "temperature" THEN Num(201) ELSE PayloadTime(y, m, 0)])

TimeOnly(y, m) ==
    Mapping(<<"validTimeLocal">>, [k \in {"validTimeLocal"} |-> PayloadTime(y, m, 12)])

ReadingLists(y, m) ==
    {List(<<Reading(y, m)>>), List(<<Reading(y, m), TimeOnly(y, m)>>),
     List(<<TimeOnly(y, m), Reading(y, m)>>)}

ScalarLists(y, m) ==
    {List(<<>>), List(<<PayloadTime(y, m, 0)>>),
     List(<<PayloadTime(y, m, 0), PayloadTime(y, m, 12)>>), List(<<Num(201), Num(205)>>)}

PayloadValues(y, m) ==
    {PayloadTime(y, m, 0), Num(201)} \cup ScalarLists(y, m) \cup ReadingLists(y, m)

InitPayload ==
    /\ year \in Years
    /\ month = 6
    /\ tz_str = "Asia/Tokyo"
    /\ df = None
    /\ g = None
    /\ ret = None
    /\ prev = None
    /\ \/ resp \in ReadingLists(year, month)
       \/ \E n \in 0..MaxPayloadKeys : \E keys \in [1..n -> PayloadKeys] :
             /\ Injective(keys)
             /\ \E vals \in [Range(keys) -> PayloadValues(year, month)] :
                   resp = Mapping(keys, vals)
    /\ NewClient
    /\ pc = "start"

\* raw_df = TwcClient.to_dataframe(payload)
ToDataframe ==
    /\ pc = "start"
    /\ ret' = to_dataframe(resp)
    /\ pc' = "to_dataframe"
    /\ UNCHANGED <<year, month, tz_str, df, g, prev, resp, jwt, jwt_time, clock, call>>

NextPayload == ToDataframe

SpecPayload == InitPayload /\ [][NextPayload]_vars

\* the value is a sequence of mappings
IsReadingList(x) ==
    IF IsList(x) THEN \A i \in 1..Len(x.list) : IsMapping(x.list[i]) ELSE FALSE

\* the known container keys under which the payload holds a sequence of
\* mappings, as positions in the order of the claim
ContainersHeld ==
    {i \in DOMAIN ContainerKeys :
        IF ContainerKeys[i] \in Range(resp.keys)
        THEN IsReadingList(resp.vals[ContainerKeys[i]]) ELSE FALSE}

\* the table has one row per element of elems, the elements' fields as
\* columns, and timestamp resolved from a candidate field
OneRowPerElement(elems) ==
    /\ IsFrame(ret)
    /\ Len(ret.rows) = Len(elems)
    /\ \A i \in 1..Len(elems) : \A k \in Range(elems[i].keys) :
          /\ k \in Range(ret.columns)
          /\ ret.rows[i][k] = elems[i].vals[k]
          /\ k \in Range(TimestampCandidates) => "timestamp" \in Range(ret.columns)

\* C13 as stated: a mapping that holds a sequence of mappings under a known
\* container key gives one row per element of that sequence with the
\* elements' fields as columns, a timestamp-candidate field resolved into
\* timestamp; of several container keys the first in the order data,
\* observations, series, result, results is used.
C13_ContainerElementsAsRows ==
    (pc = "to_dataframe" /\ IsMapping(resp)) =>
        \A i \in ContainersHeld :
            (\A j \in ContainersHeld : i <= j)
                => OneRowPerElement(resp.vals[ContainerKeys[i]].list)

\* C14 as stated: a call leaves the caller's table with the columns and rows
\* it had before the call, also when daily_aggregates is given a table
\* with timestamp and without date.
C14_ArgumentUnchanged == [][df' = df]_vars

\* ------------------------------------------------------ TwcClient.ensure_jwt

\* str.strip(): the text without its leading and trailing white space
IsSpace(ch) == ch \in {9, 10, 13, 32}

Strip(s) ==
    IF \A i \in 1..Len(s) : IsSpace(s[i]) THEN <<>>
    ELSE SubSeq(s, Min({i \in 1..Len(s) : ~IsSpace(s[i])}),
                   CHOOSE i \in 1..Len(s) :
                       ~IsSpace(s[i]) /\ \A j \in (i + 1)..Len(s) : IsSpace(s[j]))

\* lines 44-45: a text that starts and ends with '"' loses both ends
Unquote(txt) ==
    IF Len(txt) > 0 /\ txt[1] = 34 /\ txt[Len(txt)] = 34
    THEN SubSeq(txt, 2, Len(txt) - 1) ELSE txt

\* the truth value of self._jwt
Truthy(token) == token # None /\ token.s # <<>>

FreshUpToLimit(now, since) == now - since <= 50 * 60

\* now - self._jwt_time < 50 * 60
Fresh(now, since) == now - since < 50 * 60

\* line 36
FromCache(force, now) == ~force /\ Truthy(jwt) /\ Fresh(now, jwt_time)

\* what requests.get and raise_for_status give: a body, or an exception
Responses ==
    {[ok |-> TRUE, text |-> <<65>>],                \* A
     [ok |-> TRUE, text |-> <<34, 66, 34, 10>>],    \* "B" and a line feed
     [ok |-> TRUE, text |-> <<34, 34>>],            \* ""
     [ok |-> FALSE, text |-> <<>>]}

\* the times time.time() is read at: a second before, at and a second past
\* every multiple of the 50 minutes
ClockValues ==
    {t \in {k * (50 * 60) + d : k \in 0..MaxRenewals, d \in {-1, 0, 1}} : t >= 0}

InitClient ==
    /\ year = FirstYear
    /\ month = 6
    /\ tz_str = "Asia/Tokyo"
    /\ df = None
    /\ g = None
    /\ ret = None
    /\ prev = None
    /\ resp = None
    /\ NewClient
    /\ pc = "start"

\* time passes between two calls
Tick ==
    /\ \E t \in ClockValues : t > clock /\ clock' = t
    /\ UNCHANGED <<year, month, tz_str, df, g, ret, prev, pc, resp, jwt, jwt_time, call>>

\* lines 35-37: the cached token is returned
ReturnCached(force, now) ==
    /\ FromCache(force, now)
    /\ ret' = jwt
    /\ call' = [force |-> force, now |-> now, requested |-> FALSE, ok |-> FALSE,
                jwt |-> jwt, jwt_time |-> jwt_time]
    /\ UNCHANGED <<jwt, jwt_time>>

\* lines 38-48: the request succeeds
Renew(force, now, response) ==
    /\ ~FromCache(force, now)
    /\ response.ok
    /\ jwt' = Str(Unquote(Strip(response.text)))
    /\ jwt_time' = now
    /\ ret' = Str(Unquote(Strip(response.text)))
    /\ call' = [force |-> force, now |-> now, requested |-> TRUE, ok |-> TRUE,
                jwt |-> jwt, jwt_time |-> jwt_time]

\* lines 41-42: requests.get or raise_for_status raises
RequestFails(force, now, response) ==
    /\ ~FromCache(force, now)
    /\ ~response.ok
    /\ ret' = Raise("HTTPError")
    /\ call' = [force |-> force, now |-> now, requested |-> TRUE, ok |-> FALSE,
                jwt |-> jwt, jwt_time |-> jwt_time]
    /\ UNCHANGED <<jwt, jwt_time>>

\* jwt = self.ensure_jwt(force)
EnsureJwt ==
    /\ \E force \in BOOLEAN : \E response \in Responses :
          \/ ReturnCached(force, clock)
          \/ Renew(force, clock, response)
          \/ RequestFails(force, clock, response)
    /\ pc' = "ensure_jwt"
    /\ UNCHANGED <<year, month, tz_str, df, g, prev, resp, clock>>

NextClient == Tick \/ EnsureJwt

SpecClient == InitClient /\ [][NextClient]_vars

\* the last call found the cache usable: not forced, a token cached, and
\* that token less than 50 minutes old
CacheUsable(cached) ==
    ~call.force /\ cached /\ call.now - call.jwt_time < 50 * 60

\* what a call does, given whether it found a token cached
CallDoes(cached) ==
    /\ call.requested <=> ~CacheUsable(cached)
    /\ ~call.requested => (ret = call.jwt /\ jwt = call.jwt /\ jwt_time = call.jwt_time)
    /\ (call.requested /\ call.ok) => (ret = jwt /\ ~Raised(jwt) /\ jwt_time = call.now)
    /\ (call.requested /\ ~call.ok) =>
          (Raised(ret) /\ jwt = call.jwt /\ jwt_time = call.jwt_time)
    /\ (~call.force /\ ~Raised(ret)) => call.now - jwt_time < 50 * 60

\* C15 as stated: a call without force returns the cached token without a
\* request exactly when a token is cached and is less than 50 minutes old;
\* otherwise a request is made, which replaces token and time on success
\* and leaves them on failure; a token returned without force is less
\* than 50 minutes old.
C15_CachedTokenServed ==
    pc = "ensure_jwt" => CallDoes(call.jwt # None)

\* C15: a call without force returns the cached token without a request
\* exactly when a non-empty token is cached and is less than 50 minutes
\* old; otherwise a request is made, which replaces token and time on
\* success and leaves them on failure; a token returned without force is
\* less than 50 minutes old.
C15_NonEmptyCachedTokenServed ==
    pc = "ensure_jwt" => CallDoes(call.jwt # None /\ call.jwt # Str(<<>>))

\* a call without force one second before the 50 minutes are over: the
\* token is served from the cache
C15_Witness ==
    /\ pc = "ensure_jwt"
    /\ ~call.force /\ ~call.requested
    /\ call.now - jwt_time = 50 * 60 - 1
    /\ ret = jwt
    /\ ret = Str(<<66>>)

====
